---- MODULE Spec2Model ----
(***************************************************************************)
(* Model of tools/custom_gap_fill_actions.py: a QTM script that registers  *)
(* ten commands, builds a menu from list_of_definitions and, when a command *)
(* runs, fills every gap of the definition's target trajectory through the *)
(* host's trajectory API.                                                  *)
(*                                                                         *)
(* Values.  Trajectory names and host trajectory IDs are strings (IDs are  *)
(* opaque to the script).  Python's None is the string "None" where an ID  *)
(* is expected; the optional settings argument of fill_trajectory is <<>>  *)
(* for None and <<s>> for a settings dictionary s.  A dictionary is a      *)
(* record; an absent key is an absent field.                               *)
(*                                                                         *)
(* The host (QTM) is the environment: the name-to-ID mapping is state that *)
(* the host may change between commands; the gap list it returns and the   *)
(* fill calls it rejects are inputs of each command execution.             *)
(***************************************************************************)
EXTENDS Integers, Sequences, FiniteSets, TLC

VARIABLES
    pc,                  \* position of the script's top-level code (lines 177-180)
    list_of_definitions, \* the module global of lines 60-65
    user_commands,       \* host registry: names of the user commands
    execute_function,    \* host registry: command name -> def_id its lambda passes
    menu,                \* host menu items, in insertion order
    trajectory_ids,      \* host: name -> ID of the trajectories that exist
    terminal,            \* what the script wrote in its current activation
    last                 \* the host calls of the command execution just made

vars == <<pc, list_of_definitions, user_commands, execute_function, menu,
          trajectory_ids, terminal, last>>

----------------------------------------------------------------------------
(* Bounds of the model *)

\* longest list_of_definitions explored (the script accepts any length)
MaxDefs == 12
\* most gaps a trajectory has
MaxGaps == 2

----------------------------------------------------------------------------
(* Python values *)

None == "None"
NoSettings == <<>>

Digit(d) ==
    CASE d = 0 -> "0" [] d = 1 -> "1" [] d = 2 -> "2" [] d = 3 -> "3"
      [] d = 4 -> "4" [] d = 5 -> "5" [] d = 6 -> "6" [] d = 7 -> "7"
      [] d = 8 -> "8" [] d = 9 -> "9"

\* str(i) for a non-negative int: its decimal digits
RECURSIVE str(_)
str(i) == IF i < 10 THEN Digit(i) ELSE str(i \div 10) \o Digit(i % 10)

----------------------------------------------------------------------------
(* The definitions *)

\* The four definitions of the source (lines 61-64), followed by definitions
\* of the other shapes the docstring allows (lines 15-25) and of the shapes
\* it names as limitations (lines 29-31: names of no existing trajectory).
\* Every relational or virtual definition carries its settings, as line 82
\* requires.
DefinitionPool == <<
    [display_name |-> "Q_WaistBack (polynomial)", target |-> "Q_WaistBack",
     method |-> "polynomial"],
    [display_name |-> "Q_WaistBack (kinematic)", target |-> "Q_WaistBack",
     method |-> "kinematic"],
    [display_name |-> "Q_WaistLFront (rel): WaistBack-WaistRFront-WaistL",
     target |-> "Q_WaistLFront", method |-> "relational",
     settings |-> [origin |-> "Q_WaistBack", line |-> "Q_WaistRFront",
                   plane |-> "Q_WaistL"]],
    [display_name |-> "Q_WaistRFront (rel): WaistBack-WaistLFront-WaistR",
     target |-> "Q_WaistRFront", method |-> "relational",
     settings |-> [origin |-> "Q_WaistBack", line |-> "Q_WaistLFront",
                   plane |-> "Q_WaistR"]],
    [display_name |-> "Q_WaistL (virtual): WaistBack + offset",
     target |-> "Q_WaistL", method |-> "virtual",
     settings |-> [origin |-> "Q_WaistBack", offset |-> <<0, 0, 100>>,
                   is_rigid_body |-> FALSE, is_relative_offset |-> TRUE]],
    [display_name |-> "Q_WaistL (kinematic, with settings)",
     target |-> "Q_WaistL", method |-> "kinematic",
     settings |-> [origin |-> "Q_WaistBack", line |-> "Q_WaistRFront"]],
    [display_name |-> "Q_WaistR (rel): Ghost-WaistBack",
     target |-> "Q_WaistR", method |-> "relational",
     settings |-> [origin |-> "Q_Ghost", line |-> "Q_WaistBack",
                   is_rigid_body |-> TRUE]],
    [display_name |-> "Q_Ghost (polynomial)", target |-> "Q_Ghost",
     method |-> "polynomial"] >>

\* A list of n definitions: the pool, cyclically, from position r
DefinitionList(n, r) ==
    [i \in 1..n |-> DefinitionPool[((i - 1 + r) % Len(DefinitionPool)) + 1]]

Rotations == {0, 5}

----------------------------------------------------------------------------
(* The host *)

\* The trajectories of the measurement when the script is loaded
LoadIds ==
    [n \in {"Q_WaistBack", "Q_WaistLFront", "Q_WaistRFront", "Q_WaistL",
            "Q_WaistR"} |->
        CASE n = "Q_WaistBack" -> "id1" [] n = "Q_WaistLFront" -> "id2"
          [] n = "Q_WaistRFront" -> "id3" [] n = "Q_WaistL" -> "id4"
          [] n = "Q_WaistR" -> "id5"]

\* The same labels on other trajectories (relabelled, or another file);
\* Q_WaistR is no longer there
RelabelledIds ==
    [n \in {"Q_WaistBack", "Q_WaistLFront", "Q_WaistRFront", "Q_WaistL"} |->
        CASE n = "Q_WaistBack" -> "id2" [] n = "Q_WaistLFront" -> "id1"
          [] n = "Q_WaistRFront" -> "id6" [] n = "Q_WaistL" -> "id3"]

HostMappings == {LoadIds, RelabelledIds}

\* gap number g of a trajectory, as the range get_gap_ranges reports
GapRange(g) == [start |-> 10 * g, end |-> 10 * g + 3]

\* The lists get_gap_ranges may return: gaps in ascending order
RECURSIVE GapListOf(_, _)
GapListOf(S, g) ==
    IF g > MaxGaps THEN <<>>
    ELSE (IF g \in S THEN <<GapRange(g)>> ELSE <<>>) \o GapListOf(S, g + 1)

GapLists == {GapListOf(S, 1) : S \in SUBSET (1..MaxGaps)}

----------------------------------------------------------------------------
(* The host's trajectory API, as the script uses it *)

\* find_trajectory answered from the mapping read when the script was loaded
find_trajectory_cached(ids, name) ==
    IF name \in DOMAIN LoadIds THEN LoadIds[name] ELSE None

\* traj.find_trajectory(name): the ID of the trajectory of that name, None
\* when there is none
find_trajectory(ids, name) ==
    IF name \in DOMAIN ids THEN ids[name] ELSE None

\* data_3d.get_gap_ranges(id): the gap list of an existing trajectory; what
\* the lookup of a missing name returned is no trajectory ID and the call
\* raises (lines 29-31)
get_gap_ranges(id, host_gaps) ==
    IF id = None THEN [id |-> id, raised |-> TRUE, ranges |-> <<>>]
    ELSE [id |-> id, raised |-> FALSE, ranges |-> host_gaps]

\* TRUE when a settings argument refers to no trajectory
RefersToNone(settings) ==
    /\ settings # NoSettings
    /\ \E k \in DOMAIN settings[1] \cap {"origin", "line", "plane"} :
           settings[1][k] = None

\* traj.fill_trajectory(id, algorithm, range, settings): TRUE when the call
\* raises: the host rejects the gap (lines 32-33, 101) or the settings name
\* no trajectory (lines 29-31)
fill_trajectory(id, algorithm, range, settings, host_rejects) ==
    host_rejects \/ RefersToNone(settings)

----------------------------------------------------------------------------
(* _gap_fill_def, lines 68-107 *)

\* lines 83-91 replacing a name only when the lookup found a trajectory
convert_key_if_found(settings, key, ids) ==
    IF key \in DOMAIN settings /\ find_trajectory(ids, settings[key]) # None
    THEN [settings EXCEPT ![key] = find_trajectory(ids, settings[key])]
    ELSE settings

\* lines 83-85, 86-88, 89-91: one key of the local settings
convert_key(settings, key, ids) ==
    IF key \in DOMAIN settings
    THEN [settings EXCEPT ![key] = find_trajectory(ids, settings[key])]
    ELSE settings

\* lines 83-91
convert_settings(settings, ids) ==
    convert_key(convert_key(convert_key(settings, "origin", ids),
                            "line", ids), "plane", ids)

\* the find_trajectory calls of lines 85, 88, 91, in order
RECURSIVE settings_lookups(_, _, _)
settings_lookups(settings, keys, ids) ==
    IF keys = <<>> THEN <<>>
    ELSE (IF Head(keys) \in DOMAIN settings
          THEN <<[name |-> settings[Head(keys)],
                  ret |-> find_trajectory(ids, settings[Head(keys)])]>>
          ELSE <<>>) \o settings_lookups(settings, Tail(keys), ids)

\* line 82 without the copy: settings is the definition's own dictionary and
\* the writes of lines 85, 88, 91 land in list_of_definitions
aliased_settings(defs, def_id, converted) ==
    [defs EXCEPT ![def_id + 1] =
        [k \in DOMAIN defs[def_id + 1] |->
            IF k = "settings" THEN converted ELSE defs[def_id + 1][k]]]

\* line 82, copy.deepcopy: the writes of lines 85, 88, 91 go to a local copy;
\* the value is list_of_definitions after the conversion
deepcopy_settings(defs, def_id, converted) ==
    defs

\* the call made for gap i of the loop
FillCall(id_target, gf_method, gap_ranges, settings, host_raises, i) ==
    [id |-> id_target, method |-> gf_method, gap |-> gap_ranges[i],
     settings |-> settings,
     raised |-> fill_trajectory(id_target, gf_method, gap_ranges[i],
                                settings, i \in host_raises)]

\* first gap whose call raises, 0 when none does
FirstRaise(calls) ==
    IF \E i \in DOMAIN calls : calls[i].raised
    THEN CHOOSE i \in DOMAIN calls :
             calls[i].raised /\ \A j \in 1..(i - 1) : ~calls[j].raised
    ELSE 0

\* lines 98-104 with break for continue
fill_gaps_break(id_target, gf_method, gap_ranges, settings, host_raises) ==
    LET all == [i \in 1..Len(gap_ranges) |->
                   FillCall(id_target, gf_method, gap_ranges, settings,
                            host_raises, i)]
        n == IF FirstRaise(all) = 0 THEN Len(all) ELSE FirstRaise(all)
    IN [fill_calls |-> SubSeq(all, 1, n),
        not_all_gaps_filled_flag |-> FirstRaise(all) # 0,
        propagated |-> FALSE]

\* lines 98-104 without the try: the first exception leaves the function
fill_gaps_uncaught(id_target, gf_method, gap_ranges, settings, host_raises) ==
    LET all == [i \in 1..Len(gap_ranges) |->
                   FillCall(id_target, gf_method, gap_ranges, settings,
                            host_raises, i)]
        n == IF FirstRaise(all) = 0 THEN Len(all) ELSE FirstRaise(all)
    IN [fill_calls |-> SubSeq(all, 1, n),
        not_all_gaps_filled_flag |-> FALSE,
        propagated |-> FirstRaise(all) # 0]

\* lines 98-104 looping over gap_ranges[1:]
fill_gaps_skip_first(id_target, gf_method, gap_ranges, settings, host_raises) ==
    LET all == [i \in 1..Len(gap_ranges) |->
                   FillCall(id_target, gf_method, gap_ranges, settings,
                            host_raises, i)]
        kept == SubSeq(all, 2, Len(all))
    IN [fill_calls |-> kept,
        not_all_gaps_filled_flag |-> \E i \in DOMAIN kept : kept[i].raised,
        propagated |-> FALSE]

\* lines 97-104: one call per gap, in list order; an exception sets the flag
\* and the loop goes on; nothing propagates
fill_gaps(id_target, gf_method, gap_ranges, settings, host_raises) ==
    LET calls == [i \in 1..Len(gap_ranges) |->
                     FillCall(id_target, gf_method, gap_ranges, settings,
                              host_raises, i)]
    IN [fill_calls |-> calls,
        not_all_gaps_filled_flag |-> \E i \in DOMAIN calls : calls[i].raised,
        propagated |-> FALSE]

\* lines 79-93 passing the definition's settings for every method
call_settings_always(gf_def, ids) ==
    IF "settings" \in DOMAIN gf_def
    THEN <<convert_settings(gf_def.settings, ids)>>
    ELSE NoSettings

\* lines 79-93: the settings argument of the fill calls
call_settings(gf_def, ids) ==
    IF gf_def.method \in {"relational", "virtual"}
    THEN <<convert_settings(gf_def.settings, ids)>>
    ELSE NoSettings

\* _gap_fill_def(def_id) with list_of_definitions = defs, the host's mapping
\* ids, host_gaps the list get_gap_ranges returns and host_raises the
\* positions of the gaps the host refuses to fill
gap_fill_def(defs, def_id, ids, host_gaps, host_raises) ==
    IF def_id + 1 > Len(defs)
    THEN \* line 71: IndexError
         [find_calls |-> <<>>, gap_calls |-> <<>>, fill_calls |-> <<>>,
          written |-> <<>>, result |-> "IndexError", definitions |-> defs]
    ELSE
    LET gf_def == defs[def_id + 1]
        id_target == find_trajectory(ids, gf_def.target)
        target_lookup == <<[name |-> gf_def.target, ret |-> id_target]>>
        gaps == get_gap_ranges(id_target, host_gaps)
    IN  IF gaps.raised
        THEN \* line 75 raises
             [find_calls |-> target_lookup, gap_calls |-> <<gaps>>,
              fill_calls |-> <<>>, written |-> <<>>,
              result |-> "RuntimeError", definitions |-> defs]
        ELSE
        LET gap_ranges == gaps.ranges
            gf_method == gf_def.method
            relation == gf_method \in {"relational", "virtual"}
            settings == call_settings(gf_def, ids)
            lookups == IF relation
                       THEN settings_lookups(gf_def.settings,
                                <<"origin", "line", "plane">>, ids)
                       ELSE <<>>
            after == IF relation
                     THEN deepcopy_settings(defs, def_id, settings[1])
                     ELSE defs
            loop == fill_gaps(id_target, gf_method, gap_ranges, settings,
                              host_raises)
        IN  [find_calls |-> target_lookup \o lookups,
             gap_calls |-> <<gaps>>,
             fill_calls |-> loop.fill_calls,
             written |->
                 <<"Applying gap filling action " \o gf_def.display_name>>
                 \o (IF loop.not_all_gaps_filled_flag /\ ~loop.propagated
                     THEN <<"- Not all gaps could be filled">> ELSE <<>>),
             result |-> IF loop.propagated THEN "RuntimeError" ELSE "returned",
             definitions |-> after]

----------------------------------------------------------------------------
(* add_my_commands, lines 110-152 *)

\* the command names of lines 114, 118, ..., 150, in order
AddedCommands ==
    <<"gap_fill_def_0", "gap_fill_def_1", "gap_fill_def_2", "gap_fill_def_3",
      "gap_fill_def_4", "gap_fill_def_5", "gap_fill_def_6", "gap_fill_def_7",
      "gap_fill_def_8", "gap_fill_def_9">>

\* one lambda made in a loop over k: every command runs the last index
late_bound_def_id(k) ==
    Len(AddedCommands) - 1

\* lines 116, 120, ..., 152: the k-th block's lambda calls _gap_fill_def(k),
\* k counted from 0
lambda_def_id(k) ==
    k

\* the registrations of add_my_commands: command name -> index of its lambda
registered_functions ==
    [c \in {AddedCommands[j] : j \in DOMAIN AddedCommands} |->
        lambda_def_id((CHOOSE j \in DOMAIN AddedCommands :
                           AddedCommands[j] = c) - 1)]

add_my_commands ==
    /\ pc = "add_my_commands"
    /\ user_commands' = user_commands \cup DOMAIN registered_functions
    /\ execute_function' = registered_functions
    /\ pc' = "setup_my_menu"
    /\ UNCHANGED <<list_of_definitions, menu, trajectory_ids, terminal, last>>

----------------------------------------------------------------------------
(* setup_my_menu, lines 156-174 *)

\* line 167
command_name(i) ==
    "gap_fill_def_" \o str(i)

\* lines 169-170 naming i for i + 1
overflow_message_off_by_one(i) ==
    "Number of gap fill definitions exceeds maximum:\n"
        \o "- Definitions " \o str(i) \o " and higher are ignored."

\* lines 169-170
overflow_message(i) ==
    "Number of gap fill definitions exceeds maximum:\n"
        \o "- Definitions " \o str(i + 1) \o " and higher are ignored."

\* lines 165-174 from index i on: the buttons inserted and the text written
RECURSIVE menu_loop(_, _, _, _)
menu_loop(defs, i, commands, gf_sub_id) ==
    IF i >= Len(defs) THEN [buttons |-> <<>>, written |-> <<>>]
    ELSE IF command_name(i) \notin commands
         THEN \* lines 168-171: write and break
              [buttons |-> <<>>, written |-> <<overflow_message(i)>>]
         ELSE LET rest == menu_loop(defs, i + 1, commands, gf_sub_id)
              IN [buttons |->
                      <<[kind |-> "button", parent |-> gf_sub_id,
                         label |-> defs[i + 1].display_name,
                         command |-> command_name(i)]>> \o rest.buttons,
                  written |-> rest.written]

\* A menu item's parent is the position of its submenu in menu, 0 for the
\* menu bar (parent None)
setup_my_menu ==
    /\ pc = "setup_my_menu"
    /\ LET my_menu_id == Len(menu) + 1
           gf_sub_id == Len(menu) + 2
           loop == menu_loop(list_of_definitions, 0, user_commands, gf_sub_id)
       IN /\ menu' = menu
                \o <<[kind |-> "submenu", parent |-> 0,
                      label |-> "My menu", command |-> ""],
                     [kind |-> "submenu", parent |-> my_menu_id,
                      label |-> "Gap fill...", command |-> ""]>>
                \o loop.buttons
          /\ terminal' = terminal \o loop.written
    /\ pc' = "loaded"
    /\ UNCHANGED <<list_of_definitions, user_commands, execute_function,
                   trajectory_ids, last>>

----------------------------------------------------------------------------
(* The host runs a command *)

NoExecution ==
    [via |-> "none", command |-> "", label |-> "", def_id |-> 0,
     ids |-> LoadIds, result |-> "none",
     find_calls |-> <<>>, gap_calls |-> <<>>, fill_calls |-> <<>>]

\* The host calls the execute function of a command: the lambda runs
\* _gap_fill_def to its end.
execute(command, via, label) ==
    /\ pc = "ready"
    /\ command \in DOMAIN execute_function
    /\ \E host_gaps \in GapLists :
       \E host_raises \in SUBSET (1..Len(host_gaps)) :
         LET def_id == execute_function[command]
             r == gap_fill_def(list_of_definitions, def_id, trajectory_ids,
                               host_gaps, host_raises)
         IN /\ list_of_definitions' = r.definitions
            /\ terminal' = terminal \o r.written
            /\ last' = [via |-> via, command |-> command, label |-> label,
                        def_id |-> def_id, ids |-> trajectory_ids,
                        result |-> r.result, find_calls |-> r.find_calls,
                        gap_calls |-> r.gap_calls,
                        fill_calls |-> r.fill_calls]
    /\ pc' = "executed"
    /\ UNCHANGED <<user_commands, execute_function, menu, trajectory_ids>>

\* the user presses button b of the menu
press_button(b) ==
    /\ menu[b].kind = "button"
    /\ execute(menu[b].command, "button", menu[b].label)

\* the host runs a registered command by its name, not through the menu
run_command(c) ==
    execute(c, "command", "")

\* The script's activation (its load, or one command) is over and the host
\* waits for the next command: what the activation wrote and called is
\* dropped from the record
host_idle ==
    /\ pc \in {"loaded", "executed"}
    /\ pc' = "ready"
    /\ terminal' = <<>>
    /\ last' = NoExecution
    /\ UNCHANGED <<list_of_definitions, user_commands, execute_function, menu,
                   trajectory_ids>>

\* the host's trajectories change: labels move, another file is opened
relabel ==
    /\ \E m \in HostMappings \ {trajectory_ids} : trajectory_ids' = m
    /\ UNCHANGED <<pc, list_of_definitions, user_commands, execute_function,
                   menu, terminal, last>>

----------------------------------------------------------------------------
(* The specification *)

Init ==
    /\ pc = "add_my_commands"
    /\ \E n \in 0..MaxDefs, r \in Rotations :
           list_of_definitions = DefinitionList(n, r)
    /\ user_commands \in {{}, {"rel_fill_waistlfront"}}
    /\ execute_function = <<>>
    /\ menu = <<>>
    /\ trajectory_ids = LoadIds
    /\ terminal = <<>>
    /\ last = NoExecution

Next ==
    \/ add_my_commands
    \/ setup_my_menu
    \/ \E b \in DOMAIN menu : press_button(b)
    \/ \E c \in user_commands : run_command(c)
    \/ host_idle
    \/ relabel

Spec == Init /\ [][Next]_vars

----------------------------------------------------------------------------
(* Properties *)

NotAllFilled == "- Not all gaps could be filled"

ReferenceKeys == {"origin", "line", "plane"}

\* a command has just run _gap_fill_def on a definition of the list
Executed == pc = "executed" /\ last.result # "IndexError"

\* the definition the last execution ran
ExecutedDef == list_of_definitions[last.def_id + 1]

\* the gap list the last execution got, <<>> when get_gap_ranges raised
ReturnedGaps == last.gap_calls[1].ranges

SomeFillRaised == \E i \in DOMAIN last.fill_calls : last.fill_calls[i].raised

Count(seq, x) == Cardinality({i \in DOMAIN seq : seq[i] = x})

\* C1: an execution for definition d makes one get_gap_ranges call, on the ID
\* found for d's target, and then one fill_trajectory call per gap of the
\* returned list, in list order, each with that ID and d's method; no fill
\* call has another ID or another range.
C1_FillsEveryGapOfTarget ==
    Executed =>
        /\ last.find_calls[1].name = ExecutedDef.target
        /\ Len(last.gap_calls) = 1
        /\ last.gap_calls[1].id = last.find_calls[1].ret
        /\ last.gap_calls[1].raised => last.fill_calls = <<>>
        /\ ~last.gap_calls[1].raised =>
              /\ Len(last.fill_calls) = Len(ReturnedGaps)
              /\ \A i \in DOMAIN last.fill_calls :
                    /\ last.fill_calls[i].id = last.find_calls[1].ret
                    /\ last.fill_calls[i].method = ExecutedDef.method
                    /\ last.fill_calls[i].gap = ReturnedGaps[i]

C1_Witness ==
    /\ Executed
    /\ Len(ReturnedGaps) >= 2
    /\ Len(last.fill_calls) = Len(ReturnedGaps)
    /\ last.fill_calls[2].gap = ReturnedGaps[2]

\* C2: when fill_trajectory raises for a gap, the execution still calls it
\* for every gap of the list and returns normally; "- Not all gaps could be
\* filled" is written once when some fill call raised and not at all when
\* none did.
C2_FillErrorsSwallowed ==
    pc = "executed" =>
        /\ SomeFillRaised =>
              /\ last.result = "returned"
              /\ Len(last.fill_calls) = Len(ReturnedGaps)
        /\ Count(terminal, NotAllFilled) = (IF SomeFillRaised THEN 1 ELSE 0)

C2_Witness ==
    /\ pc = "executed"
    /\ Len(last.fill_calls) >= 2
    /\ last.fill_calls[1].raised
    /\ ~last.fill_calls[2].raised
    /\ last.result = "returned"
    /\ Count(terminal, NotAllFilled) = 1

\* every origin, line and plane in list_of_definitions is a trajectory name
HoldsNames ==
    \A i \in DOMAIN list_of_definitions :
        "settings" \in DOMAIN list_of_definitions[i] =>
            \A k \in DOMAIN list_of_definitions[i].settings \cap ReferenceKeys :
                list_of_definitions[i].settings[k] \in
                    {"Q_WaistBack", "Q_WaistLFront", "Q_WaistRFront",
                     "Q_WaistL", "Q_WaistR", "Q_Ghost"}

\* C3: no step changes list_of_definitions, nested settings included, and
\* origin, line and plane of every definition hold trajectory names at all
\* times.
C3_DefinitionsNeverMutated ==
    /\ []HoldsNames
    /\ [][list_of_definitions' = list_of_definitions]_vars

C3_Witness ==
    /\ Executed
    /\ ExecutedDef.method = "relational"
    /\ SomeFillRaised
    /\ \E i \in DOMAIN last.fill_calls :
           last.fill_calls[i].settings[1].origin = "id1"
    /\ ExecutedDef.settings.origin = "Q_WaistBack"

\* what the host's mapping ids answers for a name
Answer(ids, name) == IF name \in DOMAIN ids THEN ids[name] ELSE "None"

\* C4: every execution looks the names up in the host's mapping of that
\* moment: one lookup for the target and, for relational and virtual, one for
\* each of origin, line, plane present; get_gap_ranges and fill_trajectory get
\* the IDs of that mapping, also after the mapping changed; loading the
\* script and setting up the menu look nothing up.
C4_NamesResolvedAtExecution ==
    /\ pc \in {"add_my_commands", "setup_my_menu", "loaded"} =>
           last = NoExecution
    /\ Executed =>
        /\ \A j \in DOMAIN last.find_calls :
               last.find_calls[j].ret =
                   Answer(last.ids, last.find_calls[j].name)
        /\ last.gap_calls[1].id = Answer(last.ids, ExecutedDef.target)
        /\ \A i \in DOMAIN last.fill_calls :
               last.fill_calls[i].id = Answer(last.ids, ExecutedDef.target)
        /\ ExecutedDef.method \in {"relational", "virtual"}
               /\ ~last.gap_calls[1].raised =>
              /\ Len(last.find_calls) = 1 +
                    Cardinality(DOMAIN ExecutedDef.settings \cap ReferenceKeys)
              /\ \A i \in DOMAIN last.fill_calls :
                 \A k \in DOMAIN ExecutedDef.settings \cap ReferenceKeys :
                     last.fill_calls[i].settings[1][k] =
                         Answer(last.ids, ExecutedDef.settings[k])

C4_Witness ==
    /\ Executed
    /\ last.ids = RelabelledIds
    /\ ExecutedDef.method = "relational"
    /\ last.fill_calls # <<>>
    /\ last.fill_calls[1].id = RelabelledIds[ExecutedDef.target]
    /\ last.fill_calls[1].id # LoadIds[ExecutedDef.target]
    /\ last.fill_calls[1].settings[1].origin = RelabelledIds["Q_WaistBack"]

TargetMissing == ExecutedDef.target \notin DOMAIN last.ids

\* the target exists and a relational or virtual definition names a missing
\* origin, line or plane
RelationMissing ==
    /\ ~TargetMissing
    /\ ExecutedDef.method \in {"relational", "virtual"}
    /\ \E k \in DOMAIN ExecutedDef.settings \cap ReferenceKeys :
           ExecutedDef.settings[k] \notin DOMAIN last.ids

Buttons == SelectSeq(menu, LAMBDA item : item.kind = "button")

\* C7: loading registers the ten commands gap_fill_def_0 .. gap_fill_def_9 and
\* builds the menu "My menu" with the submenu "Gap fill..." holding min(N, 10)
\* buttons in list order, button i with definition i's display_name and the
\* command gap_fill_def_i; for N > 10 the overflow message is written once
\* and names definitions 11 and higher, for N <= 10 nothing is written.
C7_LoadBuildsMenu ==
    pc \in {"loaded", "ready", "executed"} =>
      LET N == Len(list_of_definitions)
          shown == IF N < 10 THEN N ELSE 10
      IN
        /\ Cardinality(DOMAIN execute_function) = 10
        /\ \A k \in 0..9 : command_name(k) \in DOMAIN execute_function
        /\ DOMAIN execute_function \subseteq user_commands
        /\ menu[1] = [kind |-> "submenu", parent |-> 0, label |-> "My menu",
                      command |-> ""]
        /\ menu[2] = [kind |-> "submenu", parent |-> 1,
                      label |-> "Gap fill...", command |-> ""]
        /\ Len(menu) = 2 + shown
        /\ \A i \in 0..(shown - 1) :
               menu[3 + i] =
                   [kind |-> "button", parent |-> 2,
                    label |-> list_of_definitions[i + 1].display_name,
                    command |-> AddedCommands[i + 1]]
        /\ pc = "loaded" =>
               terminal =
                   IF N > 10
                   THEN <<"Number of gap fill definitions exceeds maximum:\n"
                            \o "- Definitions 11 and higher are ignored.">>
                   ELSE <<>>

C7_Witness ==
    /\ pc = "loaded"
    /\ Len(list_of_definitions) = 12
    /\ Len(Buttons) = 10
    /\ Len(terminal) = 1

\* C8: every fill call of an execution gets None as settings for polynomial
\* and kinematic, and for relational and virtual the definition's settings
\* with each of origin, line, plane that is present replaced by the ID
\* find_trajectory returned for that name, no key added or dropped, every
\* other value unchanged.
C8_SettingsByMethod ==
    Executed =>
      \A i \in DOMAIN last.fill_calls :
        LET passed == last.fill_calls[i].settings IN
        /\ ExecutedDef.method \in {"polynomial", "kinematic"} =>
               passed = NoSettings
        /\ ExecutedDef.method \in {"relational", "virtual"} =>
               /\ Len(passed) = 1
               /\ DOMAIN passed[1] = DOMAIN ExecutedDef.settings
               /\ \A k \in DOMAIN ExecutedDef.settings :
                      IF k \in ReferenceKeys
                      THEN \E j \in DOMAIN last.find_calls :
                               /\ last.find_calls[j].name =
                                      ExecutedDef.settings[k]
                               /\ last.find_calls[j].ret = passed[1][k]
                      ELSE passed[1][k] = ExecutedDef.settings[k]

C8_Witness ==
    /\ Executed
    /\ ExecutedDef.method = "virtual"
    /\ last.fill_calls # <<>>
    /\ last.fill_calls[1].settings[1].origin = "id1"
    /\ last.fill_calls[1].settings[1].offset = <<0, 0, 100>>
    /\ "line" \notin DOMAIN last.fill_calls[1].settings[1]

\* C9: command gap_fill_def_k runs _gap_fill_def(k) for every k in 0..9; each
\* button's command runs a definition of the list, the one whose display_name
\* the button shows; no button carries a command gap_fill_def_k with k >= N.
C9_ButtonRunsItsDefinition ==
    pc \in {"setup_my_menu", "loaded", "ready", "executed"} =>
        /\ \A k \in 0..9 : execute_function[command_name(k)] = k
        /\ \A b \in DOMAIN Buttons :
               LET k == execute_function[Buttons[b].command] IN
               /\ k < Len(list_of_definitions)
               /\ list_of_definitions[k + 1].display_name = Buttons[b].label
        /\ \A k \in 0..9 :
               k >= Len(list_of_definitions) =>
                   \A b \in DOMAIN Buttons :
                       Buttons[b].command # command_name(k)
        /\ pc = "executed" /\ last.via = "button" =>
               /\ last.result # "IndexError"
               /\ last.def_id < Len(list_of_definitions)
               /\ ExecutedDef.display_name = last.label

C9_Witness ==
    /\ pc = "executed"
    /\ last.via = "button"
    /\ last.def_id = 3
    /\ Len(list_of_definitions) = 5
    /\ last.label = list_of_definitions[4].display_name

====
